---- MODULE Spec2Model ----
(***************************************************************************)
(* Model of the game ETL of API_G: etl_games.py (main, rawg_fetch_latest,  *)
(* maybe_scrape_and_merge, upsert_rows, the table DDL and the upsert       *)
(* statement) and scraper.py (_get, _hash_id, parse_list_page,             *)
(* scrape_source, scrape_all_sources).                                     *)
(*                                                                         *)
(* Text is a sequence of one-character strings, so that joining, slicing   *)
(* and parsing are computed on the characters.  Python's None is the value *)
(* None for text and NoneNum for numbers.                                  *)
(***************************************************************************)
EXTENDS Integers, Sequences, FiniteSets, TLC

\* ------------------------------------------------------------------ bounds
\* Number of runs of main() in one behaviour.
MaxRuns == 2
\* Largest HTTP_RETRIES the environment configures (the default is 3).
MaxRetries == 1
\* The values of --limit the command line passes.
Limits == {1, 2}

\* ------------------------------------------------------- program constants
\* scraper.DEFAULT_RETRIES, the budget of every _get call of scrape_source.
DEFAULT_RETRIES == 3
\* The title/platforms/genres slice of rawg_fetch_latest, title[:255].
TITLE_MAX == 255
\* scraper.PAUSE_BETWEEN_REQUESTS, in seconds.
PAUSE_BETWEEN_REQUESTS == 1
\* The default of resp.headers.get("Retry-After", "10"), in seconds.
RETRY_AFTER_DEFAULT == 10

\* ------------------------------------------------------------------- values
None == <<"None">>
NoneNum == -1

\* s[:n] of Python.
Take(s, n) == IF Len(s) <= n THEN s ELSE SubSeq(s, 1, n)

\* sep.join(parts) of Python.
RECURSIVE JoinWith(_, _)
JoinWith(sep, parts) ==
    IF parts = <<>> THEN <<>>
    ELSE IF Len(parts) = 1 THEN parts[1]
    ELSE parts[1] \o sep \o JoinWith(sep, Tail(parts))

\* The characters the model's texts are written in; Code is the byte of a
\* character (its position here), the input of the digest.
Alphabet == <<"|", "/", ",", ".", "-", " ", "0", "1", "2", "3", "4", "5",
              "A", "B", "M", "N", "Z", "s", "x", "y", "z">>
Code(c) == CHOOSE i \in 1..Len(Alphabet) : Alphabet[i] = c

\* The width of the digest prefix and the modulus of _hash_id, scaled from
\* 64 bits and 2^63 - 1 to what TLC's integers hold.
DigestSpace == 2^16
HashMod == 2^15 - 1

\* hashlib.sha256(data).hexdigest()[:16] read as a number: a deterministic
\* function of the bytes into the digest space (a polynomial stand-in).
RECURSIVE Digest(_)
Digest(data) ==
    IF data = <<>> THEN 7
    ELSE (Digest(SubSeq(data, 1, Len(data) - 1)) * 31 + Code(data[Len(data)])) % DigestSpace

\* The pre-hash string of _hash_id: "|".join([p or "" for p in parts]).
PreHash(parts) ==
    JoinWith(<<"|">>, [i \in 1..Len(parts) |-> IF parts[i] = None THEN <<>> ELSE parts[i]])

_hash_id(parts) == Digest(PreHash(parts)) % HashMod


\* ------------------------------------------------------------- descriptors
\* SourceCfg: the descriptors load_sources reads, in file order.  `fields`
\* and `constant_fields` are dictionaries: functions on the keys present.
Sources ==
    << [name |-> <<"s", "1">>, list_urls |-> <<"u1", "u2">>,
        fields |-> [title |-> ".t", link |-> "a", release_date |-> ".d", rating |-> ".r"],
        constant_fields |-> [platforms |-> <<"N">>]],
       [name |-> <<"s", "2">>, list_urls |-> <<"u3">>,
        fields |-> [title |-> ".t", platforms |-> ".p", genres |-> ".g"],
        constant_fields |-> [genres |-> <<"A">>, title |-> <<"x">>]] >>

\* One node matched by item_selector: the stripped text of the first element
\* each selector matches (None: no element), and the href of the link element.
MkItem(t, p, g, d, r, h) ==
    [text |-> [sel \in {".t", ".p", ".g", ".d", ".r", "a"} |->
                 CASE sel = ".t" -> t [] sel = ".p" -> p [] sel = ".g" -> g
                   [] sel = ".d" -> d [] sel = ".r" -> r [] OTHER -> None],
     href |-> h]

ItemZ == MkItem(<<"Z">>, <<"A">>, None, <<"2", "0", "2", "0", "-", "0", "1", "-", "0", "2">>,
                <<"4", ",", "5", "/", "5">>, <<"/", "z">>)
ItemM == MkItem(<<"M">>, <<>>, <<"B">>, <<"s", "x">>, <<"N", "/", "A">>, None)
ItemNoTitle == MkItem(None, None, None, None, None, None)

\* _text_or_none: the stripped text, or None when it is empty or no node.
_text_or_none(node) == IF node = None \/ node = <<>> THEN None ELSE node

\* _select_text(soup, selector).
_select_text(item, selector) ==
    IF selector = "" THEN None ELSE _text_or_none(item.text[selector])

\* float(text) of Python on the decimal texts of the model: digits with at
\* most one point and at least one digit; the value in thousandths.
\* NoneNum: float raises ValueError.
IsDigit(c) == c \in {"0", "1", "2", "3", "4", "5"}
DigitVal(c) == Code(c) - Code("0")
RECURSIVE DigitsValue(_)
DigitsValue(s) ==
    IF s = <<>> THEN 0 ELSE DigitsValue(SubSeq(s, 1, Len(s) - 1)) * 10 + DigitVal(s[Len(s)])
Float(s) ==
    LET dots == {i \in 1..Len(s) : s[i] = "."}
        ok == /\ \A i \in 1..Len(s) : IsDigit(s[i]) \/ s[i] = "."
              /\ Cardinality(dots) <= 1
              /\ \E i \in 1..Len(s) : IsDigit(s[i])
        dot == IF dots = {} THEN Len(s) + 1 ELSE CHOOSE i \in dots : TRUE
        int == SubSeq(s, 1, dot - 1)
        frac == Take(SubSeq(s, dot + 1, Len(s)) \o <<"0", "0", "0">>, 3)
    IN IF ok THEN DigitsValue(int) * 1000 + DigitsValue(frac) ELSE NoneNum

\* rating.split("/")[0], the comma left as it is.
BeforeSlashKeepComma(s) ==
    LET cut == {i \in 1..Len(s) : s[i] = "/"}
        first == IF cut = {} THEN Len(s) + 1 ELSE CHOOSE i \in cut : \A j \in cut : i <= j
    IN SubSeq(s, 1, first - 1)

\* rating.replace(",", ".").split("/")[0]
BeforeSlash(s) ==
    LET t == [i \in 1..Len(s) |-> IF s[i] = "," THEN "." ELSE s[i]]
        cut == {i \in 1..Len(t) : t[i] = "/"}
        first == IF cut = {} THEN Len(t) + 1 ELSE CHOOSE i \in cut : \A j \in cut : i <= j
    IN SubSeq(t, 1, first - 1)

\* The rating block of parse_list_page.
RatingVal(rating) == IF rating = None THEN NoneNum ELSE Float(BeforeSlash(rating))

\* The fallback block without effect: the constants are never consulted.
FallbackNever(value, field, scfg) == value

\* `if not value and field in cfg.constant_fields: value = cfg.constant_fields[field]`,
\* the statement parse_list_page has for platforms and for genres.
Fallback(value, field, scfg) ==
    IF value = None /\ field \in DOMAIN scfg.constant_fields
    THEN scfg.constant_fields[field] ELSE value

\* One iteration of parse_list_page's loop: the row of one item.
ParseItem(item, scfg) ==
    LET has(f) == f \in DOMAIN scfg.fields
        title == IF has("title") THEN _select_text(item, scfg.fields["title"]) ELSE None
        href == IF has("link") /\ scfg.fields["link"] # "" THEN item.href ELSE None
        platforms0 == IF has("platforms") THEN _select_text(item, scfg.fields["platforms"]) ELSE None
        genres0 == IF has("genres") THEN _select_text(item, scfg.fields["genres"]) ELSE None
        release_date == IF has("release_date") THEN _select_text(item, scfg.fields["release_date"]) ELSE None
        rating == IF has("rating") THEN _select_text(item, scfg.fields["rating"]) ELSE None
        platforms == Fallback(platforms0, "platforms", scfg)
        genres == Fallback(genres0, "genres", scfg)
    IN [game_id |-> _hash_id(<<scfg.name, title, href, release_date>>),
        title |-> title,
        platforms |-> platforms,
        genres |-> genres,
        release_date |-> release_date,
        rating |-> RatingVal(rating),
        source |-> <<"s", "c", "r", "a", "p", "e", ":">> \o scfg.name,
        raw_json |-> NoneNum]

\* The list pages a site can answer with.
PageBodies == { <<ItemZ>>, <<ItemM, ItemNoTitle>> }

\* ---------------------------------------------------------------- catalog
\* The raw entries of the catalog's "results".  The third has no id, the
\* fourth carries the id the scraper derives for ItemZ on the first source,
\* the fifth has no name; the sixth is one the catalog listed in the past.
RawEntries ==
    << [id |-> 1, name |-> <<"A">>, released |-> <<"2", "0", "2", "1">>,
        platforms |-> << <<"N">>, None, <<"x">> >>, genres |-> << <<"A">> >>, rating |-> 4500],
       [id |-> 1, name |-> <<"B">>, released |-> <<>>,
        platforms |-> <<>>, genres |-> <<>>, rating |-> NoneNum],
       [id |-> NoneNum, name |-> <<"M">>, released |-> None,
        platforms |-> <<>>, genres |-> << <<"A">>, <<"B">> >>, rating |-> 3000],
       [id |-> _hash_id(<<Sources[1].name, <<"Z">>, <<"/", "z">>,
                         <<"2", "0", "2", "0", "-", "0", "1", "-", "0", "2">> >>),
        name |-> <<"y">>, released |-> None,
        platforms |-> <<>>, genres |-> <<>>, rating |-> NoneNum],
       [id |-> 2, name |-> None, released |-> None,
        platforms |-> <<>>, genres |-> <<>>, rating |-> NoneNum],
       [id |-> 3, name |-> <<"x">>, released |-> None,
        platforms |-> <<>>, genres |-> <<>>, rating |-> 1000] >>

\* json.dumps(g): an injective encoding of the raw entry (its number).
Dumps(g) == CHOOSE i \in 1..Len(RawEntries) : RawEntries[i] = g

\* The sequence s without the elements equal to x.
RECURSIVE Without(_, _)
Without(s, x) ==
    IF s = <<>> THEN <<>>
    ELSE IF s[1] = x THEN Without(Tail(s), x) ELSE <<s[1]>> \o Without(Tail(s), x)

\* The dictionary rawg_fetch_latest appends for one raw entry g.
Normalize(g) ==
    LET platforms == JoinWith(<<",", " ">>, Without(g.platforms, None))
        genres == JoinWith(<<",", " ">>, g.genres)
    IN [game_id |-> g.id,
        title |-> IF g.name # None /\ g.name # <<>> THEN Take(g.name, TITLE_MAX) ELSE None,
        platforms |-> IF platforms # <<>> THEN Take(platforms, TITLE_MAX) ELSE None,
        genres |-> IF genres # <<>> THEN Take(genres, TITLE_MAX) ELSE None,
        release_date |-> IF g.released = None \/ g.released = <<>> THEN None ELSE g.released,
        rating |-> g.rating,
        source |-> <<"r", "a", "w", "g">>,
        raw_json |-> Dumps(g)]

\* The `normalized` list of rawg_fetch_latest: results[:limit], normalized.
NormalizeAll(results, limit) ==
    LET cut == Take(results, limit) IN [i \in 1..Len(cut) |-> Normalize(cut[i])]

\* The "results" arrays the catalog can answer with.
CatalogBodies ==
    { <<RawEntries[1], RawEntries[2]>>, <<RawEntries[3], RawEntries[5]>>, <<RawEntries[4]>> }


\* ------------------------------------------------------------------ storage
\* The data columns the upsert statement writes, besides the key.
DataColumns == {"title", "platforms", "genres", "release_date", "rating", "source", "raw_json"}

\* The data columns of a stored row or of a submitted row.
Data(r) == [c \in DataColumns |-> r[c]]

\* The row INSERT stores for a new key at CURRENT_TIMESTAMP = now: the
\* submitted columns, and both stamps defaulted to now.
Inserted(r, now) ==
    [game_id |-> r.game_id, title |-> r.title, platforms |-> r.platforms,
     genres |-> r.genres, release_date |-> r.release_date, rating |-> r.rating,
     source |-> r.source, raw_json |-> r.raw_json,
     created_at |-> now, updated_at |-> now]

\* The row ON DUPLICATE KEY UPDATE leaves for an existing key: the seven data
\* columns are assigned; created_at is not in the update list; updated_at
\* (ON UPDATE CURRENT_TIMESTAMP, not assigned) moves to now only when the
\* assignment changes the value of some column.
Updated(old, r, now) ==
    [c \in DOMAIN old |->
       IF c \in DataColumns THEN r[c]
       ELSE IF c = "updated_at" /\ Data(old) # Data(r) THEN now
       ELSE old[c]]

\* The table with key id set to row.
Put(table, id, row) ==
    [k \in DOMAIN table \cup {id} |-> IF k = id THEN row ELSE table[k]]

\* UPSERT_SQL written as DELETE-all then INSERT.
UpsertRowTruncate(table, r, now) == Put(<< >>, r.game_id, Inserted(r, now))

\* UPSERT_SQL written as REPLACE INTO: the old row is deleted and a new one
\* is inserted, with created_at defaulted again.
UpsertRowReplace(table, r, now) == Put(table, r.game_id, Inserted(r, now))

\* UPSERT_SQL with `updated_at` = CURRENT_TIMESTAMP added to the update list.
UpsertRowTouch(table, r, now) ==
    IF r.game_id \in DOMAIN table
    THEN Put(table, r.game_id, [Updated(table[r.game_id], r, now) EXCEPT !.updated_at = now])
    ELSE Put(table, r.game_id, Inserted(r, now))

\* UPSERT_SQL for one row under the table's DDL, at CURRENT_TIMESTAMP = now.
UpsertRow(table, r, now) ==
    IF r.game_id \in DOMAIN table
    THEN Put(table, r.game_id, Updated(table[r.game_id], r, now))
    ELSE Put(table, r.game_id, Inserted(r, now))

\* The dedup loop of main: a dictionary keyed by game_id, in insertion
\* order; a row without game_id is skipped, a repeated key keeps its place
\* and takes the later row.  The result is list(dedup.values()).
RECURSIVE DedupInto(_, _)
DedupInto(dedup, rs) ==
    IF rs = <<>> THEN dedup
    ELSE LET r == rs[1]
             at == {i \in 1..Len(dedup) : dedup[i].game_id = r.game_id}
         IN IF r.game_id = NoneNum THEN DedupInto(dedup, Tail(rs))
            ELSE IF at # {}
                 THEN DedupInto([i \in 1..Len(dedup) |-> IF i \in at THEN r ELSE dedup[i]], Tail(rs))
                 ELSE DedupInto(Append(dedup, r), Tail(rs))
\* The dedup loop keeping the first row of a key (`if key not in dedup`).
RECURSIVE KeepFirstInto(_, _)
KeepFirstInto(dedup, rs) ==
    IF rs = <<>> THEN dedup
    ELSE IF rs[1].game_id = NoneNum \/ \E i \in 1..Len(dedup) : dedup[i].game_id = rs[1].game_id
         THEN KeepFirstInto(dedup, Tail(rs))
         ELSE KeepFirstInto(Append(dedup, rs[1]), Tail(rs))
DedupKeepFirst(rs) == KeepFirstInto(<<>>, rs)

\* The dedup loop without the `is None` test: None is a key like any other.
RECURSIVE KeepNoneInto(_, _)
KeepNoneInto(dedup, rs) ==
    IF rs = <<>> THEN dedup
    ELSE LET at == {i \in 1..Len(dedup) : dedup[i].game_id = rs[1].game_id}
         IN IF at # {}
            THEN KeepNoneInto([i \in 1..Len(dedup) |-> IF i \in at THEN rs[1] ELSE dedup[i]], Tail(rs))
            ELSE KeepNoneInto(Append(dedup, rs[1]), Tail(rs))
DedupKeepNone(rs) == KeepNoneInto(<<>>, rs)

Dedup(rs) == DedupInto(<<>>, rs)

\* ------------------------------------------------------------------- state
VARIABLES
    store,      \* the committed rows of the table: game_id -> row
    txn,        \* the open transaction and its view of the table, NoTxn when none
    clock,      \* the store's CURRENT_TIMESTAMP
    runs,       \* how many runs of main() have started
    pc,         \* where main() is
    cfg,        \* the run's environment and command line
    rows,       \* main's `rows` before dedup
    batch,      \* the list main passes to upsert_rows
    cursor,     \* the next row of the batch to execute
    attempt,    \* the loop variable of the current fetch
    last_exc,   \* last_exc of the current fetch
    reqs,       \* GET requests the current fetch has issued
    src,        \* index of the descriptor scrape_all_sources is at
    url,        \* index of the list URL scrape_source is at
    out,        \* scrape_source's `out`
    srows,      \* scrape_all_sources' `rows`
    status,     \* what became of the catalog fetch, of load_sources and of each descriptor
    exit_code,  \* main's return value, NoneNum while it runs
    error,      \* the exception main's handler logged, "" when none
    http,       \* the hosts this run has sent an HTTP request to
    db,         \* database calls issued in this run
    tape,       \* what the network and the store answered in this run, in order
    pos,        \* how many answers of the tape this run has consumed
    replay,     \* TRUE when this run is given the previous run's answers
    store0,     \* the table as the run found it
    last_req,   \* the last request sent to the site the run is at, NoReq when none yet
    waited,     \* seconds the run has slept since it sent that request
    n,          \* main's n, what upsert_rows returned; NoneNum before it returns
    call,       \* the function or endpoint called on its own, and its arguments
    ret         \* what that call returned, NoRet before it returns

vars == <<store, txn, clock, runs, pc, cfg, rows, batch, cursor, attempt, last_exc, reqs,
          src, url, out, srows, status, exit_code, error, http, db, tape, pos, replay, store0,
          last_req, waited, n, call, ret>>

\* parse_list_page with the id taken from a digest salted per process, as
\* Python's built-in hash() of a string is: the salt changes from run to run.
ParseListPageSalted(html, scfg) ==
    [i \in 1..Len(html) |->
       [ParseItem(html[i], scfg) EXCEPT !.game_id = (@ + clock) % HashMod]]

\* parse_list_page(html, cfg): the rows of the page's items, in page order.
parse_list_page(html, scfg) == [i \in 1..Len(html) |-> ParseItem(html[i], scfg)]

NoTxn == [open |-> FALSE, view |-> << >>]
NoCfg == [api_key |-> "", no_api |-> FALSE, scrape_enabled |-> FALSE, retries |-> 0, limit |-> 1]
NoReq == [host |-> <<>>, status |-> NoneNum, retry_after |-> NoneNum]
NoCall == [fn |-> "none"]
NoRet == [fn |-> "none"]
NoStatus == [api |-> "pending", load |-> "pending", src |-> [i \in 1..Len(Sources) |-> "pending"]]

\* The tables a run can find: the empty one, and one that earlier runs left
\* at time 0, with a row the catalog still lists under other values, a row
\* under the id the scraper derives for ItemZ, and a row no source lists now.
EarlierStores ==
    { << >>,
      UpsertRow(UpsertRow(UpsertRow(<< >>, Normalize(RawEntries[2]), 0),
                          Normalize(RawEntries[4]), 0),
                Normalize(RawEntries[6]), 0) }

\* main() has not run: its variables before the first run starts.
Fresh ==
    /\ clock = 0
    /\ txn = NoTxn
    /\ runs = 0
    /\ pc = "idle"
    /\ cfg = NoCfg
    /\ rows = <<>>
    /\ batch = <<>>
    /\ cursor = 0
    /\ attempt = 0
    /\ last_exc = "None"
    /\ reqs = 0
    /\ src = 0
    /\ url = 0
    /\ out = <<>>
    /\ srows = <<>>
    /\ status = NoStatus
    /\ exit_code = NoneNum
    /\ error = ""
    /\ http = {}
    /\ db = 0
    /\ tape = <<>>
    /\ pos = 0
    /\ replay = FALSE
    /\ last_req = NoReq
    /\ waited = 0
    /\ n = NoneNum

Init ==
    /\ store \in EarlierStores
    /\ store0 = store
    /\ Fresh
    /\ call = NoCall
    /\ ret = NoRet


\* --------------------------------------------------------------- environment
\* The first run of a behaviour may be given any answer by the network and
\* the store, and records on the tape what each fetch and each call came to.
\* A later run is main() run again on the same upstream data: it replays the
\* tape, each fetch and call coming to what it came to before.
Answers(all) == IF replay THEN {tape[pos + 1]} ELSE all
Heard(a) == /\ tape' = IF replay THEN tape ELSE Append(tape, a)
            /\ pos' = pos + 1

\* What a GET can come to: a response with a status, or an exception of
\* requests (status 0, a timeout) instead of a response.
\* A 429 carries a Retry-After header of whole seconds, or none (NoneNum).
RetryAfters == {NoneNum, 5}
Failures ==
    {[status |-> 429, body |-> <<>>, retry_after |-> ra] : ra \in RetryAfters}
      \cup {[status |-> st, body |-> <<>>, retry_after |-> NoneNum] : st \in {500, 0}}
GetAnswers(bodies, budget) ==
    IF ~replay
    THEN {[status |-> 200, body |-> b, retry_after |-> NoneNum] : b \in bodies} \cup Failures
    ELSE LET e == tape[pos + 1]
         IN (IF e.ok THEN {[status |-> 200, body |-> e.body, retry_after |-> NoneNum]} ELSE {})
              \cup (IF e.ok /\ attempt >= budget THEN {} ELSE Failures)

\* What a fetch came to, as the tape keeps it.
Fetched(body) == [ok |-> TRUE, body |-> body]
NotFetched == [ok |-> FALSE, body |-> <<>>]

\* What reaches the `except` of a fetch loop for an answer that is no success:
\* raise_for_status's HTTPError, or the exception requests.get raised.
ExcOf(a) == IF a.status = 0 THEN "Timeout" ELSE "HTTPError"

\* The request a fetch has just sent, as last_req keeps it.
Sent(host, a) == [host |-> host, status |-> a.status, retry_after |-> a.retry_after]

\* wait = int(resp.headers.get("Retry-After", "10")) of rawg_fetch_latest.
RetryWait(a) == IF a.retry_after = NoneNum THEN RETRY_AFTER_DEFAULT ELSE a.retry_after

\* A database call succeeds or raises.
DbAnswers == {"ok", "OperationalError"}

\* main's `except Exception`: the error is logged and main returns 1.
Raise(e) ==
    /\ pc' = "done"
    /\ exit_code' = 1
    /\ error' = e

\* ------------------------------------------------------------------ actions
\* main() starts: load_config, the parsed command line, make_engine.
StartRun ==
    /\ pc = "idle"
    /\ runs < MaxRuns
    /\ replay' = (runs > 0)
    /\ IF runs > 0
       THEN cfg' = cfg
       ELSE \* With --no-api the key and HTTP_RETRIES are never read: one
            \* value of each is drawn.
            \E na \in BOOLEAN, se \in BOOLEAN, l \in Limits :
              \E k \in (IF na THEN {""} ELSE {"", "key"}),
                 rt \in (IF na THEN {0} ELSE 0..MaxRetries) :
                cfg' = [api_key |-> k, no_api |-> na, scrape_enabled |-> se,
                        retries |-> rt, limit |-> l]
    /\ pos' = 0
    /\ runs' = runs + 1
    /\ clock' = clock + 1
    /\ store0' = store
    /\ pc' = "ensure_table"
    /\ rows' = <<>> /\ batch' = <<>> /\ cursor' = 0
    /\ attempt' = 0 /\ last_exc' = "None" /\ reqs' = 0
    /\ src' = 0 /\ url' = 0 /\ out' = <<>> /\ srows' = <<>>
    /\ status' = NoStatus
    /\ exit_code' = NoneNum /\ error' = ""
    /\ http' = {} /\ db' = 0
    /\ UNCHANGED <<store, txn, tape>>
    /\ last_req' = NoReq /\ waited' = 0 /\ n' = NoneNum
    /\ UNCHANGED <<call, ret>>

\* ensure_table: CREATE TABLE IF NOT EXISTS in its own transaction.
EnsureTable ==
    /\ pc = "ensure_table"
    /\ db' = db + 1
    /\ \E a \in Answers(DbAnswers) :
         /\ Heard(a)
         /\ IF a = "ok"
            THEN pc' = "catalog" /\ UNCHANGED <<exit_code, error>>
            ELSE Raise(a)
    /\ UNCHANGED <<store, txn, clock, runs, cfg, rows, batch, cursor, attempt, last_exc, reqs,
                   src, url, out, srows, status, http, replay, store0>>
    /\ UNCHANGED <<last_req, waited, n, call, ret>>

\* main with --no-api: the catalog is not asked.
CatalogSkipped ==
    /\ pc = "catalog"
    /\ cfg.no_api
    /\ pc' = "scrape"
    /\ status' = [status EXCEPT !.api = "skipped"]
    /\ UNCHANGED <<store, txn, clock, runs, cfg, rows, batch, cursor, attempt, last_exc, reqs,
                   src, url, out, srows, exit_code, error, http, db, tape, pos, replay, store0>>
    /\ UNCHANGED <<last_req, waited, n, call, ret>>

\* rawg_fetch_latest without its key check: the request is sent with key="".
RawgEnterNoKeyCheck ==
    /\ pc = "catalog"
    /\ ~cfg.no_api
    /\ pc' = "rawg_get"
    /\ attempt' = 1
    /\ last_exc' = "None"
    /\ reqs' = 0
    /\ UNCHANGED <<store, txn, clock, runs, cfg, rows, batch, cursor, exit_code, error, status,
                   src, url, out, srows, http, db, tape, pos, replay, store0>>
    /\ UNCHANGED <<last_req, waited, n, call, ret>>

\* rawg_fetch_latest up to its loop: the key check, then last_exc = None.
RawgEnter ==
    /\ pc = "catalog"
    /\ ~cfg.no_api
    /\ IF cfg.api_key = ""
       THEN /\ Raise("RuntimeError")
            /\ status' = [status EXCEPT !.api = "failed"]
            /\ UNCHANGED <<attempt, last_exc, reqs>>
       ELSE /\ pc' = "rawg_get"
            /\ attempt' = 1
            /\ last_exc' = "None"
            /\ reqs' = 0
            /\ UNCHANGED <<exit_code, error, status>>
    /\ UNCHANGED <<store, txn, clock, runs, cfg, rows, batch, cursor,
                   src, url, out, srows, http, db, tape, pos, replay, store0>>
    /\ UNCHANGED <<last_req, waited, n, call, ret>>

\* rawg_fetch_latest written as `while attempt <= retries` with the 429
\* branch leaving the counter alone: a 429 is retried for free.
RawgGetFree429 ==
    /\ pc = "rawg_get"
    /\ attempt <= cfg.retries
    /\ reqs < MaxRetries + 2
    /\ http' = http \cup {<<"r", "a", "w", "g">>}
    /\ \E a \in GetAnswers(CatalogBodies, cfg.retries) :
         CASE a.status = 429 ->
                /\ reqs' = reqs + 1
                /\ last_req' = Sent(<<"r", "a", "w", "g">>, a)
                /\ waited' = RetryWait(a)
                /\ UNCHANGED <<attempt, last_exc, rows, pc, status, tape, pos>>
           [] a.status = 200 ->
                /\ rows' = rows \o NormalizeAll(a.body, cfg.limit)
                /\ pc' = "scrape"
                /\ status' = [status EXCEPT !.api = "ok"]
                /\ Heard(Fetched(a.body))
                /\ attempt' = 0
                /\ last_exc' = "None"
                /\ reqs' = 0
                /\ last_req' = NoReq
                /\ waited' = 0
           [] OTHER ->
                /\ last_exc' = ExcOf(a)
                /\ attempt' = attempt + 1
                /\ reqs' = reqs + 1
                /\ last_req' = Sent(<<"r", "a", "w", "g">>, a)
                /\ waited' = 2 * attempt
                /\ UNCHANGED <<rows, pc, status, tape, pos>>
    /\ UNCHANGED <<store, txn, clock, runs, cfg, batch, cursor,
                   src, url, out, srows, exit_code, error, db, replay, store0>>
    /\ UNCHANGED <<n, call, ret>>

\* One iteration of rawg_fetch_latest's loop: the GET and what follows it.
RawgGet ==
    /\ pc = "rawg_get"
    /\ attempt <= cfg.retries
    /\ http' = http \cup {<<"r", "a", "w", "g">>}
    /\ \E a \in GetAnswers(CatalogBodies, cfg.retries) :
         CASE a.status = 429 ->
                \* wait = int(Retry-After or "10"); sleep(wait); continue
                /\ attempt' = attempt + 1
                /\ reqs' = reqs + 1
                /\ last_req' = Sent(<<"r", "a", "w", "g">>, a)
                /\ waited' = RetryWait(a)
                /\ UNCHANGED <<last_exc, rows, pc, status, tape, pos>>
           [] a.status = 200 ->
                /\ rows' = rows \o NormalizeAll(a.body, cfg.limit)
                /\ pc' = "scrape"
                /\ status' = [status EXCEPT !.api = "ok"]
                /\ Heard(Fetched(a.body))
                /\ attempt' = 0
                /\ last_exc' = "None"
                /\ reqs' = 0
                /\ last_req' = NoReq
                /\ waited' = 0
           [] OTHER ->
                \* except Exception as e: last_exc = e; sleep(2 * attempt)
                /\ last_exc' = ExcOf(a)
                /\ attempt' = attempt + 1
                /\ reqs' = reqs + 1
                /\ last_req' = Sent(<<"r", "a", "w", "g">>, a)
                /\ waited' = 2 * attempt
                /\ UNCHANGED <<rows, pc, status, tape, pos>>
    /\ UNCHANGED <<store, txn, clock, runs, cfg, batch, cursor,
                   src, url, out, srows, exit_code, error, db, replay, store0>>
    /\ UNCHANGED <<n, call, ret>>

\* main with the catalog fetch under a try/except of its own, as the scraper
\* is in maybe_scrape_and_merge: the failure is logged and the run goes on.
RawgExhaustedDowngraded ==
    /\ pc = "rawg_get"
    /\ attempt > cfg.retries
    /\ pc' = "scrape"
    /\ status' = [status EXCEPT !.api = "failed"]
    /\ Heard(NotFetched)
    /\ attempt' = 0 /\ last_exc' = "None" /\ reqs' = 0
    /\ last_req' = NoReq /\ waited' = 0
    /\ UNCHANGED <<store, txn, clock, runs, cfg, rows, batch, cursor, exit_code, error,
                   src, url, out, srows, http, db, replay, store0>>
    /\ UNCHANGED <<n, call, ret>>

\* The loop of rawg_fetch_latest is over: assert last_exc is not None; raise.
RawgExhausted ==
    /\ pc = "rawg_get"
    /\ attempt > cfg.retries
    /\ Raise(IF last_exc = "None" THEN "AssertionError" ELSE last_exc)
    /\ status' = [status EXCEPT !.api = "failed"]
    /\ Heard(NotFetched)
    /\ UNCHANGED <<store, txn, clock, runs, cfg, rows, batch, cursor, attempt, last_exc, reqs,
                   src, url, out, srows, http, db, replay, store0>>
    /\ last_req' = NoReq /\ waited' = 0
    /\ UNCHANGED <<n, call, ret>>

\* maybe_scrape_and_merge with SCRAPE_ENABLED unset or false.
ScrapeDisabled ==
    /\ pc = "scrape"
    /\ ~cfg.scrape_enabled
    /\ pc' = "dedup"
    /\ status' = [status EXCEPT !.load = "disabled"]
    /\ UNCHANGED <<store, txn, clock, runs, cfg, rows, batch, cursor, attempt, last_exc, reqs,
                   src, url, out, srows, exit_code, error, http, db, tape, pos, replay, store0>>
    /\ UNCHANGED <<last_req, waited, n, call, ret>>

\* scrape_all_sources up to its loop: load_sources reads the descriptors, or
\* raises (no file, bad JSON), which maybe_scrape_and_merge catches and logs.
LoadSources ==
    /\ pc = "scrape"
    /\ cfg.scrape_enabled
    /\ \E a \in Answers({"ok", "OSError"}) :
         /\ Heard(a)
         /\ IF a = "ok"
            THEN /\ pc' = "robots"
                 /\ src' = 1
                 /\ srows' = <<>>
                 /\ status' = [status EXCEPT !.load = "ok"]
            ELSE /\ pc' = "dedup"
                 /\ status' = [status EXCEPT !.load = "failed"]
                 /\ UNCHANGED <<src, srows>>
    /\ UNCHANGED <<store, txn, clock, runs, cfg, rows, batch, cursor, attempt, last_exc, reqs,
                   url, out, exit_code, error, http, db, replay, store0>>
    /\ UNCHANGED <<last_req, waited, n, call, ret>>

\* scrape_source up to its loop: _allowed_by_robots, one GET without retry.
\* Only a 200 whose Disallow lines name "/" denies; an exception allows.
Robots ==
    /\ pc = "robots"
    /\ src <= Len(Sources)
    /\ http' = http \cup {Sources[src].name}
    /\ waited' = 0
    /\ \E a \in Answers({"allow", "deny", "error"}) :
         /\ Heard(a)
         /\ IF a = "deny"
            THEN \* return []: the descriptor contributes nothing
                 /\ src' = src + 1
                 /\ status' = [status EXCEPT !.src[src] = "denied"]
                 /\ last_req' = NoReq
                 /\ UNCHANGED <<pc, url, out, attempt, last_exc, reqs>>
            ELSE /\ pc' = "get"
                 /\ url' = 1
                 /\ out' = <<>>
                 /\ attempt' = 1
                 /\ last_exc' = "None"
                 /\ reqs' = 0
                 /\ last_req' = [NoReq EXCEPT !.host = Sources[src].name]
                 /\ UNCHANGED <<src, status>>
    /\ UNCHANGED <<store, txn, clock, runs, cfg, rows, batch, cursor,
                   srows, exit_code, error, db, replay, store0>>
    /\ UNCHANGED <<n, call, ret>>

\* One iteration of _get's loop for the current list URL.  On a response
\* scrape_source goes on: sleep, parse_list_page, out.extend, the limit
\* test; at the end of the descriptor scrape_all_sources extends its rows
\* with out[:limit].
Get ==
    /\ pc = "get"
    /\ attempt <= DEFAULT_RETRIES
    /\ http' = http \cup {Sources[src].name}
    /\ \E a \in GetAnswers(PageBodies, DEFAULT_RETRIES) :
         IF a.status = 200
         THEN LET out1 == out \o parse_list_page(a.body, Sources[src])
                  last == Len(out1) >= cfg.limit \/ url = Len(Sources[src].list_urls)
              IN /\ Heard(Fetched(a.body))
                 /\ IF last
                    THEN /\ srows' = srows \o Take(out1, cfg.limit)
                         /\ status' = [status EXCEPT !.src[src] = "ok"]
                         /\ src' = src + 1
                         /\ pc' = "robots"
                         /\ url' = 0
                         /\ attempt' = 0
                         /\ last_exc' = "None"
                         /\ reqs' = 0
                         /\ out' = <<>>
                         /\ last_req' = NoReq
                         /\ waited' = 0
                    ELSE \* the next URL: a new call of _get
                         /\ url' = url + 1
                         /\ attempt' = 1
                         /\ last_exc' = "None"
                         /\ reqs' = 0
                         /\ out' = out1
                         /\ last_req' = Sent(Sources[src].name, a)
                         /\ waited' = PAUSE_BETWEEN_REQUESTS
                         /\ UNCHANGED <<srows, status, src, pc>>
         ELSE \* raise_for_status or requests.get raised: last_exc = e; sleep(attempt)
              /\ last_exc' = ExcOf(a)
              /\ attempt' = attempt + 1
              /\ reqs' = reqs + 1
              /\ last_req' = Sent(Sources[src].name, a)
              /\ waited' = attempt
              /\ UNCHANGED <<srows, status, src, pc, out, url, tape, pos>>
    /\ UNCHANGED <<store, txn, clock, runs, cfg, rows, batch, cursor,
                   exit_code, error, db, replay, store0>>
    /\ UNCHANGED <<n, call, ret>>

\* scrape_all_sources without its try/except: the exception of one
\* descriptor ends the scraping, and maybe_scrape_and_merge returns no row.
GetExhaustedAbortAll ==
    /\ pc = "get"
    /\ attempt > DEFAULT_RETRIES
    /\ status' = [status EXCEPT !.src[src] = "failed"]
    /\ pc' = "dedup"
    /\ Heard(NotFetched)
    /\ src' = 0 /\ srows' = <<>>
    /\ url' = 0 /\ attempt' = 0 /\ last_exc' = "None" /\ reqs' = 0 /\ out' = <<>>
    /\ UNCHANGED <<store, txn, clock, runs, cfg, rows, batch, cursor,
                   exit_code, error, http, db, replay, store0>>
    /\ last_req' = NoReq /\ waited' = 0
    /\ UNCHANGED <<n, call, ret>>

\* scrape_source with a try/except of its own around _get that breaks out of
\* the loop: the descriptor returns what its earlier pages gave.
GetExhaustedKeepsOut ==
    /\ pc = "get"
    /\ attempt > DEFAULT_RETRIES
    /\ status' = [status EXCEPT !.src[src] = "failed"]
    /\ srows' = srows \o Take(out, cfg.limit)
    /\ src' = src + 1
    /\ pc' = "robots"
    /\ Heard(NotFetched)
    /\ url' = 0 /\ attempt' = 0 /\ last_exc' = "None" /\ reqs' = 0 /\ out' = <<>>
    /\ UNCHANGED <<store, txn, clock, runs, cfg, rows, batch, cursor,
                   exit_code, error, http, db, replay, store0>>
    /\ last_req' = NoReq /\ waited' = 0
    /\ UNCHANGED <<n, call, ret>>

\* _get's loop is over without a response: it raises last_exc, scrape_source
\* lets it through and scrape_all_sources' `except` goes to the next descriptor.
GetExhausted ==
    /\ pc = "get"
    /\ attempt > DEFAULT_RETRIES
    /\ status' = [status EXCEPT !.src[src] = "failed"]
    /\ src' = src + 1
    /\ pc' = "robots"
    /\ Heard(NotFetched)
    /\ url' = 0 /\ attempt' = 0 /\ last_exc' = "None" /\ reqs' = 0 /\ out' = <<>>
    /\ UNCHANGED <<store, txn, clock, runs, cfg, rows, batch, cursor,
                   srows, exit_code, error, http, db, replay, store0>>
    /\ last_req' = NoReq /\ waited' = 0
    /\ UNCHANGED <<n, call, ret>>

\* scrape_all_sources returns; maybe_scrape_and_merge and main extend rows.
ScrapeDone ==
    /\ pc = "robots"
    /\ src > Len(Sources)
    /\ rows' = rows \o srows
    /\ src' = 0
    /\ srows' = <<>>
    /\ pc' = "dedup"
    /\ UNCHANGED <<store, txn, clock, runs, cfg, batch, cursor, attempt, last_exc, reqs,
                   url, out, status, exit_code, error, http, db, tape, pos, replay, store0>>
    /\ UNCHANGED <<last_req, waited, n, call, ret>>

\* main's dedup loop and rows = list(dedup.values()).
DedupRows ==
    /\ pc = "dedup"
    /\ batch' = Dedup(rows)
    /\ pc' = "upsert"
    /\ UNCHANGED <<store, txn, clock, runs, cfg, rows, cursor, attempt, last_exc, reqs,
                   src, url, out, srows, status, exit_code, error, http, db, tape, pos,
                   replay, store0>>
    /\ UNCHANGED <<last_req, waited, n, call, ret>>

\* upsert_rows without its `if not rows: return 0`: the empty list is
\* executed in a transaction like any other.
UpsertEmptyBatch ==
    /\ pc = "upsert"
    /\ batch = <<>>
    /\ db' = db + 1
    /\ \E a \in Answers(DbAnswers) :
         /\ Heard(a)
         /\ IF a = "ok"
            THEN /\ txn' = [open |-> TRUE, view |-> store]
                 /\ cursor' = 1
                 /\ pc' = "execute"
                 /\ UNCHANGED <<exit_code, error>>
            ELSE /\ Raise(a)
                 /\ UNCHANGED <<txn, cursor>>
    /\ UNCHANGED <<store, clock, runs, cfg, rows, batch, attempt, last_exc, reqs,
                   src, url, out, srows, status, http, replay, store0>>
    /\ UNCHANGED <<last_req, waited, n, call, ret>>

\* upsert_rows with an empty list returns 0 without touching the store;
\* main logs and returns 0.
UpsertNothing ==
    /\ pc = "upsert"
    /\ batch = <<>>
    /\ pc' = "done"
    /\ exit_code' = 0
    /\ UNCHANGED <<store, txn, clock, runs, cfg, rows, batch, cursor, attempt, last_exc, reqs,
                   src, url, out, srows, status, error, http, db, tape, pos, replay, store0>>
    /\ n' = 0
    /\ UNCHANGED <<last_req, waited, call, ret>>

\* upsert_rows: engine.begin() opens a transaction, or fails to connect.
UpsertBegin ==
    /\ pc = "upsert"
    /\ batch # <<>>
    /\ db' = db + 1
    /\ \E a \in Answers(DbAnswers) :
         /\ Heard(a)
         /\ IF a = "ok"
            THEN /\ txn' = [open |-> TRUE, view |-> store]
                 /\ cursor' = 1
                 /\ pc' = "execute"
                 /\ UNCHANGED <<exit_code, error>>
            ELSE /\ Raise(a)
                 /\ UNCHANGED <<txn, cursor>>
    /\ UNCHANGED <<store, clock, runs, cfg, rows, batch, attempt, last_exc, reqs,
                   src, url, out, srows, status, http, replay, store0>>
    /\ UNCHANGED <<last_req, waited, n, call, ret>>

\* The statements run on an autocommit connection: what was executed stays.
RolledBackPartial(table, t) == t.view

\* What ROLLBACK leaves in the table: the `with engine.begin()` block rolls
\* the transaction back when its body raises.
RolledBack(table, t) == table

\* conn.execute(stmt, rows), row by row inside the transaction.  A row that
\* the store rejects raises: the block rolls back and upsert_rows lets the
\* exception through to main.
ExecRow ==
    /\ pc = "execute"
    /\ cursor <= Len(batch)
    /\ \E a \in Answers(DbAnswers) :
         /\ Heard(a)
         /\ IF a = "ok"
            THEN /\ txn' = [txn EXCEPT !.view = UpsertRow(txn.view, batch[cursor], clock)]
                 /\ cursor' = cursor + 1
                 /\ UNCHANGED <<pc, exit_code, error>>
                 /\ UNCHANGED store
            ELSE /\ txn' = NoTxn
                 /\ store' = RolledBack(store, txn)
                 /\ Raise(a)
                 /\ UNCHANGED cursor
    /\ UNCHANGED <<clock, runs, cfg, rows, batch, attempt, last_exc, reqs,
                   src, url, out, srows, status, http, db, replay, store0>>
    /\ UNCHANGED <<last_req, waited, n, call, ret>>

\* What COMMIT leaves in the table.
Committed(table, t) == t.view

\* The block ends: COMMIT.  upsert_rows returns len(rows), main returns 0.
\* A COMMIT that fails leaves the table as it was and raises.
Commit ==
    /\ pc = "execute"
    /\ cursor > Len(batch)
    /\ \E a \in Answers(DbAnswers) :
         /\ Heard(a)
         /\ IF a = "ok"
            THEN /\ store' = Committed(store, txn)
                 /\ pc' = "done"
                 /\ exit_code' = 0
                 /\ n' = Len(batch)
                 /\ UNCHANGED error
            ELSE /\ Raise(a)
                 /\ store' = RolledBack(store, txn)
                 /\ UNCHANGED n
    /\ txn' = NoTxn
    /\ UNCHANGED <<clock, runs, cfg, rows, batch, cursor, attempt, last_exc, reqs,
                   src, url, out, srows, status, http, db, replay, store0>>
    /\ UNCHANGED <<last_req, waited, call, ret>>

\* The process exits with main's return value; the next run can start.
Exit ==
    /\ pc = "done"
    /\ pc' = "idle"
    /\ UNCHANGED <<store, txn, clock, runs, cfg, rows, batch, cursor, attempt, last_exc, reqs,
                   src, url, out, srows, status, exit_code, error, http, db, tape, pos,
                   replay, store0>>
    /\ UNCHANGED <<last_req, waited, n, call, ret>>

Next ==
    \/ StartRun
    \/ EnsureTable
    \/ CatalogSkipped
    \/ RawgEnter
    \/ RawgGet
    \/ RawgExhausted
    \/ ScrapeDisabled
    \/ LoadSources
    \/ Robots
    \/ Get
    \/ GetExhausted
    \/ ScrapeDone
    \/ DedupRows
    \/ UpsertNothing
    \/ UpsertBegin
    \/ ExecRow
    \/ Commit
    \/ Exit

Spec == Init /\ [][Next]_vars


\* ------------------------------------------------------------------ read API
\* The bearer token of a request: none, one jwt.decode rejects (malformed or
\* expired: JWTError), one without "sub", or one /token issued.
Tokens == {"missing", "malformed", "expired", "nosub", "valid"}

\* A response: the status, the key of the JSON body and the array under it.
HTTPException(st) == [status |-> st, key |-> "detail", body |-> <<>>]
Ok(key, body) == [status |-> 200, key |-> key, body |-> body]
\* An exception of pymysql raised by connect_to_db or cursor.execute.
DbError == [status |-> 0, key |-> "OperationalError", body |-> <<>>]

\* The dependency of every token-gated route: OAuth2PasswordBearer answers
\* 401 to a request without token, verify_token to one jwt.decode rejects or
\* that has no "sub"; 200 stands for the username returned.
verify_token(token) == IF token = "valid" THEN 200 ELSE 401

\* `except Exception as e: raise HTTPException(500)` around a handler's body:
\* whatever the body raised comes out as 500, the HTTPException(404) the body
\* raised itself included.
Caught(r) == IF r.status = 200 THEN r ELSE HTTPException(500)

\* The body of a handler that returns its query's rows: the query raises, or
\* the rows are empty (raise HTTPException(404)), or they are returned.
Fetchall(answer, key) ==
    IF answer.error THEN DbError
    ELSE IF answer.rows = <<>> THEN HTTPException(404)
    ELSE Ok(key, answer.rows)

\* str.lower, str.strip and str.split(',') on the characters of the model.
Lower(c) == CASE c = "A" -> "a" [] c = "B" -> "b" [] OTHER -> c
LowerText(t) == [i \in 1..Len(t) |-> Lower(t[i])]
RECURSIVE Strip(_)
Strip(t) ==
    IF t # <<>> /\ t[1] = " " THEN Strip(Tail(t))
    ELSE IF t # <<>> /\ t[Len(t)] = " " THEN Strip(SubSeq(t, 1, Len(t) - 1))
    ELSE t
RECURSIVE Split(_, _)
Split(t, sep) ==
    LET at == {i \in 1..Len(t) : t[i] = sep}
    IN IF at = {} THEN <<t>>
       ELSE LET i == CHOOSE k \in at : \A m \in at : k <= m
            IN <<SubSeq(t, 1, i - 1)>> \o Split(SubSeq(t, i + 1, Len(t)), sep)

get_all_games(answer) == Caught(Fetchall(answer, "games"))
get_game_by_title(game_title, answer) == Caught(Fetchall(answer, "games"))
get_games_by_price(min_price, max_price, answer) == Caught(Fetchall(answer, "games"))
get_all_platforms(answer) == Caught(Fetchall(answer, "platforms"))
get_games_by_platform_name(platform_name, answer) == Caught(Fetchall(answer, "games"))

\* get_games_by_genre: the rows LIKE returned, kept when genre_name is one of
\* the comma-separated genres, case aside; 404 when none is kept.
get_games_by_genre(genre_name, answer) ==
    LET exact(game) ==
          /\ game.genres # None /\ game.genres # <<>>
          /\ \E k \in 1..Len(Split(game.genres, ",")) :
               LowerText(Strip(Split(game.genres, ",")[k])) = LowerText(genre_name)
        filtered == SelectSeq(answer.rows, exact)
    IN Caught(IF answer.error THEN DbError
              ELSE IF answer.rows = <<>> THEN HTTPException(404)
              ELSE IF filtered = <<>> THEN HTTPException(404)
              ELSE Ok("games", filtered))


\* ------------------------------------------------- functions called directly
\* The variables of main(), which a direct call leaves alone.
etl == <<store, txn, clock, runs, pc, cfg, rows, batch, cursor, attempt, last_exc, reqs,
         src, url, out, srows, status, exit_code, error, http, db, tape, pos, replay, store0,
         last_req, waited, n>>

\* Longest rating text a page is given.
MaxText == 3

\* All texts of at most k characters of chars.
Texts(chars, k) == UNION {[1..m -> chars] : m \in 0..k}

\* The rating texts of a page: none, every short text of digits, separators
\* and a letter, and the two of the specification's examples.
RatingChars == {"4", "5", ",", "/", "N"}
RatingTexts ==
    Texts(RatingChars, MaxText) \cup {None, <<"4", ",", "5", "/", "5">>, <<"N", "/", "A">>}

\* The fields parse_list_page extracts, and descriptors that select each of
\* them and carry a constant for the fields of K.
FieldNames == {"title", "platforms", "genres", "release_date", "rating"}
AllFields == [title |-> ".t", link |-> "a", platforms |-> ".p", genres |-> ".g",
              release_date |-> ".d", rating |-> ".r"]
ConstCfg(K) == [name |-> <<"s", "3">>, list_urls |-> <<"u4">>, fields |-> AllFields,
                constant_fields |-> [f \in K |-> <<"5">>]]

\* The items of a page, each field present or absent.
FieldItems ==
    {MkItem(t, p, g, d, r, None) :
       t \in {None, <<"Z">>}, p \in {None, <<"A">>}, g \in {None, <<"B">>},
       d \in {None, <<"2", "0", "2", "0", "-", "0", "1", "-", "0", "2">>},
       r \in {None, <<"4">>}}

\* The arguments of _hash_id: [cfg.name, title, href, release_date], each of
\* the last three absent, empty or a text, the separator among the texts.
PartTuples ==
    {<<nm, t, h, d>> :
       nm \in {<<"s">>}, t \in {None, <<>>, <<"A">>, <<"A", "|">>},
       h \in {None, <<>>, <<"|">>}, d \in {None, <<"2">>}}

\* The rows of the games table a query of the read API returns, and what a
\* query comes to: an exception, or a result set.
StoredGames ==
    << [title |-> <<"A">>, genres |-> <<"A", ",", " ", "B">>],
       [title |-> <<"B">>, genres |-> <<"A", "B">>],
       [title |-> <<"x">>, genres |-> None] >>
QueryAnswers ==
    {[error |-> TRUE, rows |-> <<>>]}
      \cup {[error |-> FALSE, rows |-> rs] :
              rs \in {<<>>, <<StoredGames[1]>>, <<StoredGames[2]>>,
                      <<StoredGames[1], StoredGames[2]>>, <<StoredGames[2], StoredGames[3]>>}}
Routes == {"get_all_games", "get_game_by_title", "get_games_by_price", "get_all_platforms",
           "get_games_by_platform_name", "get_games_by_genre"}

\* The calls: parse_list_page on a page of one item, _hash_id on two argument
\* lists, a request to a route of the read API.
Calls ==
    {[fn |-> "parse_list_page", html |-> <<MkItem(<<"Z">>, None, None, None, r, None)>>,
      scfg |-> Sources[1]] : r \in RatingTexts}
      \cup {[fn |-> "parse_list_page", html |-> <<it>>, scfg |-> ConstCfg(K)] :
              it \in FieldItems, K \in SUBSET FieldNames}
      \cup {[fn |-> "_hash_id", parts |-> a, others |-> b] : a \in PartTuples, b \in PartTuples}
      \cup {[fn |-> f, token |-> t, answer |-> q, arg |-> a] :
              f \in Routes, t \in Tokens, q \in QueryAnswers, a \in {<<"A">>, <<"a">>, <<"B">>}}

CallInit ==
    /\ store = << >>
    /\ store0 = store
    /\ Fresh
    /\ call \in Calls
    /\ ret = NoRet

\* What a token-gated route answers: 401 from the dependency, or the handler's.
Route(token, response) ==
    IF verify_token(token) # 200 THEN HTTPException(401) ELSE response

Returns(value) ==
    /\ ret = NoRet
    /\ ret' = [fn |-> call.fn, value |-> value]
    /\ UNCHANGED call
    /\ UNCHANGED etl

ParseListPage ==
    /\ call.fn = "parse_list_page"
    /\ Returns(parse_list_page(call.html, call.scfg))

HashId ==
    /\ call.fn = "_hash_id"
    /\ Returns([id |-> _hash_id(call.parts), data |-> PreHash(call.parts),
                other_id |-> _hash_id(call.others), other_data |-> PreHash(call.others)])

GetAllGames ==
    /\ call.fn = "get_all_games"
    /\ Returns(Route(call.token, get_all_games(call.answer)))

GetGameByTitle ==
    /\ call.fn = "get_game_by_title"
    /\ Returns(Route(call.token, get_game_by_title(call.arg, call.answer)))

GetGamesByPrice ==
    /\ call.fn = "get_games_by_price"
    /\ Returns(Route(call.token, get_games_by_price(call.arg, call.arg, call.answer)))

GetAllPlatforms ==
    /\ call.fn = "get_all_platforms"
    /\ Returns(Route(call.token, get_all_platforms(call.answer)))

GetGamesByPlatformName ==
    /\ call.fn = "get_games_by_platform_name"
    /\ Returns(Route(call.token, get_games_by_platform_name(call.arg, call.answer)))

GetGamesByGenre ==
    /\ call.fn = "get_games_by_genre"
    /\ Returns(Route(call.token, get_games_by_genre(call.arg, call.answer)))

CallNext ==
    \/ ParseListPage
    \/ HashId
    \/ GetAllGames
    \/ GetGameByTitle
    \/ GetGamesByPrice
    \/ GetAllPlatforms
    \/ GetGamesByPlatformName
    \/ GetGamesByGenre

CallSpec == CallInit /\ [][CallNext]_vars


\* --------------------------------------------------------------- properties
\* Helpers of the statements below.
IdsOf(rs) == {rs[i].game_id : i \in 1..Len(rs)}
DataOf(table) == [id \in DOMAIN table |-> Data(table[id])]
TagOf(i) == <<"s", "c", "r", "a", "p", "e", ":">> \o Sources[i].name
RawgTag == <<"r", "a", "w", "g">>
\* The batch is computed: main is in upsert_rows.
Deduped == pc \in {"upsert", "execute"}
\* The run ended with the batch committed.
Upserted == pc = "done" /\ exit_code = 0 /\ batch # <<>>
\* The table after the rows of b are upserted into it in order at time now.
RECURSIVE ApplyAll(_, _, _)
ApplyAll(table, b, now) ==
    IF b = <<>> THEN table ELSE ApplyAll(UpsertRow(table, b[1], now), Tail(b), now)
\* Where a row stands in the concatenation: the catalog, then the descriptors.
RankOf(r) == IF r.source = RawgTag THEN 0
             ELSE CHOOSE i \in 1..Len(Sources) : TagOf(i) = r.source

\* C1: the batch main hands to upsert_rows holds exactly one record for each
\* distinct non-null game_id of the concatenated rows (catalog rows first,
\* then the scraped rows in descriptor order), and that record is the last
\* one carrying that game_id in the concatenation.
C1_DedupKeepsLast ==
    Deduped =>
      /\ \A i, j \in 1..Len(rows) : i < j => RankOf(rows[i]) <= RankOf(rows[j])
      /\ \A i, j \in 1..Len(batch) : i # j => batch[i].game_id # batch[j].game_id
      /\ IdsOf(batch) = IdsOf(rows) \ {NoneNum}
      /\ \A i \in 1..Len(batch) :
           \E k \in 1..Len(rows) :
             /\ rows[k] = batch[i]
             /\ \A m \in (k + 1)..Len(rows) : rows[m].game_id # batch[i].game_id

\* A scraped record whose id collides with a catalog record's id has
\* replaced it in the batch.
C1_Witness ==
    /\ Deduped
    /\ \E k, m \in 1..Len(rows), i \in 1..Len(batch) :
         /\ k < m
         /\ rows[k].game_id = rows[m].game_id
         /\ rows[k].source = RawgTag
         /\ rows[m].source # RawgTag
         /\ batch[i] = rows[m]

\* C2: a run of main() on the same upstream data as the run before it (the
\* same configuration, each fetch and each store call coming to the same)
\* ends with the table holding the same game_ids and the same data columns
\* as the previous run left.
C2_Idempotent ==
    (pc = "done" /\ replay) => DataOf(store) = DataOf(store0)

\* A second run on the same data has committed a batch of catalog and
\* scraped rows.
C2_Witness ==
    /\ pc = "done" /\ replay /\ exit_code = 0
    /\ \E i, j \in 1..Len(batch) : batch[i].source = RawgTag /\ batch[j].source # RawgTag

\* C3: no step of any run, successful or failed, removes a game_id from the
\* table.
C3_NeverDeleted == [][DOMAIN store \subseteq DOMAIN store']_vars

\* A run on a table that held rows has committed rows under new ids.
C3_Witness ==
    /\ pc = "done" /\ exit_code = 0
    /\ DOMAIN store0 # {}
    /\ DOMAIN store # DOMAIN store0

\* C4: the table is at every moment either as the run found it or as the
\* whole batch leaves it; a failed run has exit code 1 and, when it failed in
\* upsert_rows, left the table as it found it; a run with exit code 0 has
\* committed the whole batch.
C4_BatchAtomic ==
    /\ store = store0 \/ (pc \in {"done", "idle"} /\ store = ApplyAll(store0, batch, clock))
    /\ pc = "done" =>
         /\ (error # "") = (exit_code = 1)
         /\ exit_code = 1 => store = store0
         /\ exit_code = 0 => store = ApplyAll(store0, batch, clock)

\* upsert_rows failed after a row of a longer batch had been executed.
C4_Witness ==
    /\ pc = "done" /\ error = "OperationalError"
    /\ cursor > 1 /\ cursor <= Len(batch)
    /\ UpsertRow(store0, batch[1], clock) # store0

\* C5: a committed batch leaves every row whose id is not in the batch as
\* it was, stamps included; a row whose id is in the batch holds the
\* submitted data columns, and its created_at is the old one when the id was
\* stored before; the ids of the table are the old ids and the batch's.
C5_UpsertFrame ==
    Upserted =>
      /\ DOMAIN store = DOMAIN store0 \cup IdsOf(batch)
      /\ \A id \in DOMAIN store0 \ IdsOf(batch) : store[id] = store0[id]
      /\ \A i \in 1..Len(batch) :
           LET id == batch[i].game_id
           IN /\ Data(store[id]) = Data(batch[i])
              /\ id \in DOMAIN store0 => store[id].created_at = store0[id].created_at

\* A committed batch has overwritten a stored row with other values, has
\* inserted a new row and has left a third row alone.
C5_Witness ==
    /\ Upserted
    /\ \E i \in 1..Len(batch) :
         /\ batch[i].game_id \in DOMAIN store0
         /\ Data(store0[batch[i].game_id]) # Data(batch[i])
         /\ store0[batch[i].game_id].created_at < clock
    /\ IdsOf(batch) \ DOMAIN store0 # {}
    /\ DOMAIN store0 \ IdsOf(batch) # {}

C7_NoneDropped ==
    /\ NoneNum \notin IdsOf(batch)
    /\ Deduped => /\ IdsOf(rows) \ {NoneNum} \subseteq IdsOf(batch)
                  /\ error = "" /\ exit_code = NoneNum

\* A record without game_id was dropped and another record was kept.
C7_Witness ==
    /\ Deduped
    /\ NoneNum \in IdsOf(rows)
    /\ batch # <<>>

\* C8 as the specification states it: with the catalog enabled and no API
\* key, the run fails with exit code 1 having issued no HTTP request and no
\* database call.
C8_KeyCheckedBeforeNetworkAndDb ==
    (pc = "done" /\ ~cfg.no_api /\ cfg.api_key = "") =>
      exit_code = 1 /\ http = {} /\ db = 0

\* C8 as the code has it: with the catalog enabled and no API key, the run
\* fails with exit code 1 having issued no HTTP request; the only database
\* call issued is the schema guard's, which precedes the key check, and the
\* table is as the run found it.
C8_KeyCheckedBeforeNetwork ==
    (pc = "done" /\ ~cfg.no_api /\ cfg.api_key = "") =>
      /\ exit_code = 1 /\ http = {} /\ db = 1 /\ store = store0
      /\ error \in {"RuntimeError", "OperationalError"}

\* The run failed on the missing key.
C8_Witness ==
    pc = "done" /\ ~cfg.no_api /\ cfg.api_key = "" /\ error = "RuntimeError"

\* C9: a descriptor whose scraping failed contributes no row; once
\* scrape_all_sources is over every descriptor has been gone through, and
\* the rows are the catalog's and the other descriptors'; the failure is not
\* what a failed run failed of, and a run that ends without error has exit
\* code 0 and has persisted every row of the batch.
C9_SourceFailureIsolated ==
    /\ \A i \in 1..Len(Sources) :
         status.src[i] \in {"failed", "denied"} =>
           \A k \in 1..Len(rows \o srows) : (rows \o srows)[k].source # TagOf(i)
    /\ (status.load = "ok" /\ pc \in {"dedup", "upsert", "execute", "done"}) =>
         \A i \in 1..Len(Sources) :
           /\ status.src[i] # "pending"
           /\ status.src[i] = "ok" => \E k \in 1..Len(rows) : rows[k].source = TagOf(i)
    /\ (status.api = "ok" /\ pc # "idle") =>
         SubSeq(rows, 1, Len(NormalizeAll(tape[2].body, cfg.limit)))
           = NormalizeAll(tape[2].body, cfg.limit)
    /\ (pc = "done" /\ \E i \in 1..Len(Sources) : status.src[i] = "failed") =>
         /\ error \in {"", "OperationalError"}
         /\ error = "" =>
              /\ exit_code = 0
              /\ \A i \in 1..Len(batch) : Data(store[batch[i].game_id]) = Data(batch[i])

\* The first descriptor failed, the second was scraped, and the run persisted
\* the catalog rows and the second descriptor's rows with exit code 0.
C9_Witness ==
    /\ pc = "done" /\ exit_code = 0
    /\ status.api = "ok" /\ status.src[1] = "failed" /\ status.src[2] = "ok"
    /\ \E i, j \in 1..Len(batch) :
         /\ batch[i].source = RawgTag /\ batch[j].source = TagOf(2)
         /\ batch[i].game_id \in DOMAIN store /\ batch[j].game_id \in DOMAIN store

\* C10: a fetch has issued one GET per attempt used, 429 answers included,
\* and never more than its budget (HTTP_RETRIES for rawg_fetch_latest,
\* DEFAULT_RETRIES for _get); with the budget used up it issues no further
\* GET and ends by raising.
C10_RetryBudget ==
    /\ pc = "rawg_get" =>
         /\ reqs = attempt - 1 /\ reqs <= cfg.retries
         /\ attempt > cfg.retries => ~ENABLED RawgGet /\ ENABLED RawgExhausted
    /\ pc = "get" =>
         /\ reqs = attempt - 1 /\ reqs <= DEFAULT_RETRIES
         /\ attempt > DEFAULT_RETRIES => ~ENABLED Get /\ ENABLED GetExhausted

\* The catalog answered 429 to every attempt of a budget of at least one.
C10_Witness ==
    /\ pc = "rawg_get" /\ cfg.retries >= 1
    /\ attempt > cfg.retries /\ reqs = cfg.retries
    /\ last_exc = "None"

\* The fetch of the site the run is at is about to send its next request.
NextAttemptDue ==
    \/ pc = "rawg_get" /\ attempt <= cfg.retries
    \/ pc = "get" /\ attempt <= DEFAULT_RETRIES

\* C11: a catalog fetch that used up its budget without a response ends the
\* run with the network or HTTP failure of its attempts as the error, whatever
\* the failures were (429 to every attempt included) and whatever the budget
\* (0 included); it raises nothing else.
C11_LastFailureSurfaced ==
    (pc = "done" /\ status.api = "failed" /\ cfg.api_key # "") =>
      error \in {"HTTPError", "Timeout"}

\* C12: after a 429 with Retry-After: N (10 when the header is absent), the
\* fetch has waited at least N seconds when it sends its next attempt, in
\* rawg_fetch_latest and in the scraper's _get alike.
C12_RetryAfterHonoured ==
    (NextAttemptDue /\ last_req.status = 429) =>
      waited >= RetryWait(last_req)

\* C13: when a request is about to go to the site the previous request of
\* the run went to (robots.txt, list pages, retries, the catalog's retries),
\* at least the politeness interval has been waited since that request.
C13_Politeness ==
    (NextAttemptDue /\ last_req # NoReq) => waited >= PAUSE_BETWEEN_REQUESTS

\* C14: with --no-api and scraping disabled no row is fetched and no request
\* is sent; once the schema guard has succeeded the run ends with exit code 0,
\* upsert_rows having returned 0 without a call to the store, the table as
\* the run found it.  Whenever upsert_rows returns, it returns the length of
\* the deduplicated batch.
C14_EmptyRun ==
    /\ (cfg.no_api /\ ~cfg.scrape_enabled /\ pc \in {"dedup", "upsert", "execute", "done"}) =>
         /\ rows = <<>> /\ batch = <<>> /\ http = {}
         /\ pc # "execute"
         /\ (pc = "done" /\ tape[1] = "ok") =>
              exit_code = 0 /\ error = "" /\ n = 0 /\ db = 1 /\ store = store0
    /\ n # NoneNum => n = Len(batch)
    /\ (pc = "done" /\ exit_code = 0) => n = Len(batch)

\* An empty run on a table that holds rows has ended with exit code 0.
C14_Witness ==
    /\ pc = "done" /\ cfg.no_api /\ ~cfg.scrape_enabled
    /\ exit_code = 0 /\ n = 0
    /\ DOMAIN store # {}

\* C15: a request with a valid token to a token-gated route whose query
\* returns no row is answered 404, and 500 answers only a query that raised.
C15_EmptyIs404 ==
    (ret.fn \in Routes /\ call.token = "valid") =>
      /\ (~call.answer.error /\ call.answer.rows = <<>>) => ret.value.status = 404
      /\ ret.value.status = 500 => call.answer.error

\* C16: every record of the batch handed to upsert_rows, from the catalog or
\* from a page, has a title that is a text of 1 to 255 characters.
C16_TitleBounded ==
    Deduped =>
      \A i \in 1..Len(batch) :
        /\ batch[i].title # None
        /\ Len(batch[i].title) \in 1..TITLE_MAX

\* A text of the form YYYY-MM-DD.
IsCalendarDate(t) ==
    /\ Len(t) = 10
    /\ \A i \in 1..10 : IF i \in {5, 8} THEN t[i] = "-" ELSE IsDigit(t[i])

\* C17: no scraped record of the batch handed to upsert_rows carries a
\* release_date that is not a calendar date: such a text has become absent.
C17_BadDateAbsent ==
    Deduped =>
      \A i \in 1..Len(batch) :
        batch[i].source # RawgTag =>
          batch[i].release_date = None \/ IsCalendarDate(batch[i].release_date)

\* What is written before the first '/' of a rating text, and the number it
\* writes with ',' or '.' as the decimal sign, in thousandths.
Written(t) ==
    LET k == CHOOSE i \in 1..(Len(t) + 1) :
               /\ i = Len(t) + 1 \/ t[i] = "/"
               /\ \A j \in 1..(i - 1) : t[j] # "/"
    IN SubSeq(t, 1, k - 1)
IsDecimal(w) ==
    /\ \A i \in 1..Len(w) : IsDigit(w[i]) \/ w[i] \in {",", "."}
    /\ Cardinality({i \in 1..Len(w) : w[i] \in {",", "."}}) <= 1
    /\ \E i \in 1..Len(w) : IsDigit(w[i])
DecimalValue(w) ==
    LET k == IF \E i \in 1..Len(w) : ~IsDigit(w[i])
             THEN CHOOSE i \in 1..Len(w) : ~IsDigit(w[i]) ELSE Len(w) + 1
        frac == [i \in 1..3 |-> IF k + i <= Len(w) THEN w[k + i] ELSE "0"]
    IN DigitsValue(SubSeq(w, 1, k - 1)) * 1000 + DigitsValue(frac)

\* The rating text of the page of a call of parse_list_page on the first
\* descriptor, and the rating of the row returned.
RatingText == call.html[1].text[".r"]
RatingCall == ret.fn = "parse_list_page" /\ call.scfg = Sources[1]

C19_EncodingInjective ==
    ret.fn = "_hash_id" =>
      /\ ret.value.id \in 0..(HashMod - 1)
      /\ call.parts = call.others => ret.value.id = ret.value.other_id
      /\ call.parts # call.others => ret.value.data # ret.value.other_data

\* The text the item gives for field f under the descriptor's selectors, and
\* whether the row carries the constant c for f (a rating as its number).
Extracted(f) ==
    IF f \in DOMAIN call.scfg.fields
    THEN _select_text(call.html[1], call.scfg.fields[f]) ELSE None
Carries(row, f, c) == IF f = "rating" THEN row.rating = RatingVal(c) ELSE row[f] = c
Absent(row, f) == IF f = "rating" THEN row.rating = NoneNum ELSE row[f] = None

\* C20 as the specification states it: whichever field is absent from the
\* item, the row carries the descriptor's constant for it when there is one.
C20_FallbackEveryField ==
    ret.fn = "parse_list_page" =>
      \A f \in FieldNames :
        (Extracted(f) = None /\ f \in DOMAIN call.scfg.constant_fields) =>
          Carries(ret.value[1], f, call.scfg.constant_fields[f])

\* C20 as the code has it: platforms and genres absent from the item carry
\* the descriptor's constant when there is one; title, release_date and
\* rating absent from the item stay absent, whatever the constants.
C20_FallbackPlatformsGenres ==
    ret.fn = "parse_list_page" =>
      /\ \A f \in {"platforms", "genres"} :
           (Extracted(f) = None /\ f \in DOMAIN call.scfg.constant_fields) =>
             Carries(ret.value[1], f, call.scfg.constant_fields[f])
      /\ \A f \in {"title", "release_date", "rating"} :
           Extracted(f) = None => Absent(ret.value[1], f)

\* An item without title and platforms, under a descriptor with a constant
\* for both, gave a row with the constant platforms and no title.
C20_Witness ==
    /\ ret.fn = "parse_list_page"
    /\ {"title", "platforms"} \subseteq DOMAIN call.scfg.constant_fields
    /\ Extracted("title") = None /\ Extracted("platforms") = None
    /\ ret.value[1].platforms = call.scfg.constant_fields["platforms"]
    /\ ret.value[1].title = None

\* C21: once the catalog fetch has failed (retries used up, or no key), the
\* run is over with exit code 1 and an error; load_sources was not called, no
\* descriptor was gone through, no site but the catalog was sent a request,
\* upsert_rows was not called (the schema guard's is the only database call,
\* no batch, no return value) and the table is as the run found it.
C21_CatalogFailureEndsRun ==
    status.api = "failed" =>
      /\ pc \in {"done", "idle"}
      /\ exit_code = 1 /\ error # ""
      /\ status.load = "pending"
      /\ \A i \in 1..Len(Sources) : status.src[i] = "pending"
      /\ http \subseteq {RawgTag}
      /\ srows = <<>> /\ rows = <<>> /\ batch = <<>>
      /\ db = 1 /\ n = NoneNum /\ txn = NoTxn
      /\ store = store0

\* A run with scraping enabled has ended on the catalog's last failure, its
\* retries used up.
C21_Witness ==
    /\ pc = "done" /\ status.api = "failed"
    /\ cfg.scrape_enabled /\ cfg.retries >= 1
    /\ error \in {"HTTPError", "Timeout"}
    /\ http = {RawgTag}

\* What scrape_all_sources was answered so far in this run: after the answer
\* to load_sources, for each descriptor the answer to robots.txt and then
\* what the fetch of each list URL it tried came to.
ScrapeTape == SubSeq(tape, (IF cfg.no_api THEN 2 ELSE 3) + 1, pos)

\* The rows the answers t call for, read by the rule of the claim: a
\* descriptor gives the first `limit` items of its pages in list_urls order,
\* going to no further URL once it holds `limit` items, and gives nothing
\* when robots.txt denies it or when a fetch it tried failed.  i is the
\* descriptor t starts in, u the URL it is at (0: before robots.txt), acc the
\* items of its earlier pages, res the rows of the descriptors before it.
RECURSIVE AllOrNothing(_, _, _, _, _)
AllOrNothing(t, i, u, acc, res) ==
    IF t = <<>> THEN [out |-> acc, rows |-> res, src |-> i, url |-> u]
    ELSE IF u = 0
         THEN IF t[1] = "deny"
              THEN AllOrNothing(Tail(t), i + 1, 0, <<>>, res)
              ELSE AllOrNothing(Tail(t), i, 1, <<>>, res)
    ELSE IF ~t[1].ok THEN AllOrNothing(Tail(t), i + 1, 0, <<>>, res)
    ELSE LET items == acc \o parse_list_page(t[1].body, Sources[i])
         IN IF Len(items) >= cfg.limit \/ u = Len(Sources[i].list_urls)
            THEN AllOrNothing(Tail(t), i + 1, 0, <<>>, res \o Take(items, cfg.limit))
            ELSE AllOrNothing(Tail(t), i, u + 1, items, res)

\* C22: whenever scrape_all_sources is between two descriptors or
\* scrape_source comes to a list URL, the rows they hold are, for each
\* descriptor done, the first `limit` items of its pages in list_urls order,
\* or none at all when a fetch it tried failed after its retries, the items
\* of its earlier pages included; scrape_source is at a list URL only while
\* it holds fewer than `limit` items; main's rows are the catalog's followed
\* by those.
C22_AllOrNothing ==
    /\ (pc = "robots" \/ (pc = "get" /\ attempt = 1)) =>
         [out |-> out, rows |-> srows, src |-> src, url |-> url]
           = AllOrNothing(ScrapeTape, 1, 0, <<>>, <<>>)
    /\ pc = "get" => /\ url \in 1..Len(Sources[src].list_urls)
                     /\ Len(out) < cfg.limit
    /\ pc \in {"robots", "get", "dedup"} =>
         \A i \in 1..Len(Sources) :
           LET got == SelectSeq(rows \o srows, LAMBDA r : r.source = TagOf(i))
           IN /\ status.src[i] = "failed" => got = <<>>
              /\ Len(got) <= cfg.limit
    /\ (pc = "dedup" /\ status.load = "ok") =>
         \E k \in 0..Len(rows) :
           /\ \A j \in 1..k : rows[j].source = RawgTag
           /\ SubSeq(rows, k + 1, Len(rows)) = AllOrNothing(ScrapeTape, 1, 0, <<>>, <<>>).rows

\* The first descriptor's first page gave an item, fewer than the limit; the
\* fetch of its second list URL failed, and the descriptor left no row.
C22_Witness ==
    /\ pc = "robots" /\ src = 2
    /\ status.src[1] = "failed"
    /\ pos = (IF cfg.no_api THEN 2 ELSE 3) + 3
    /\ tape[pos] = NotFetched
    /\ tape[pos - 1] = Fetched(<<ItemZ>>)
    /\ cfg.limit = 2
    /\ srows = <<>>

====
